---- MODULE Spec2Model ----
(***************************************************************************)
(* Shape inference of the ragged conversion ops                            *)
(* (tensorflow/core/ops/ragged_conversion_ops.cc):                         *)
(*   RaggedTensorToSparseShapeFn, RaggedTensorToVariantShapeFn,            *)
(*   RaggedTensorFromVariantShapeFn.                                       *)
(* One call of a shape function is modelled statement by statement: pc is  *)
(* the position in the function body, the locals are variables, and the    *)
(* InferenceContext is the triple (attrs, inputs, outputs).  outputs[i] is *)
(* the sequence of shapes handed to set_output(i, .) so far.               *)
(***************************************************************************)
EXTENDS Integers, Sequences, FiniteSets, TLC

\* ---------------------------------------------------------------- bounds
MaxRaggedRank == 2      \* largest ragged-rank attribute value
MaxRank == 2            \* largest known rank of an input shape
MaxDim == 2             \* largest known dimension of an input shape

\* ------------------------------------------- DimensionHandle, ShapeHandle
UnknownDim == [known |-> FALSE]

MakeDim(v) == [known |-> TRUE, value |-> v]

UnknownShape == [rankKnown |-> FALSE]

MakeShape(ds) == [rankKnown |-> TRUE, dims |-> ds]

Scalar == MakeShape(<< >>)

Vector(d) == MakeShape(<<d>>)

Matrix(d1, d2) == MakeShape(<<d1, d2>>)

UnknownShapeOfRank(r) == MakeShape([j \in 1..r |-> UnknownDim])

RankKnown(s) == s.rankKnown

Rank(s) == Len(s.dims)

\* Dim(s, idx): the idx-th (0-based) dimension; unknown for unknown rank.
Dim(s, idx) == IF RankKnown(s) THEN s.dims[idx + 1] ELSE UnknownDim

\* ------------------------------------------------------------------ Status
OK == [code |-> "OK"]

InvalidArgument(m) == [code |-> "INVALID_ARGUMENT", msg |-> m]

\* an attribute of the node: present with a value, or missing
Attr(v) == [absent |-> FALSE, value |-> v]

NoAttr == [absent |-> TRUE]

AttrError(name) == [code |-> "ATTR_ERROR", msg |-> name]

\* GetAttr(name): [status, value]
GetAttr(as, name) ==
    IF as[name].absent
    THEN [status |-> AttrError(name)]
    ELSE [status |-> OK, value |-> as[name].value]

\* WithRank(shape, rank, &out): exact-rank assertion, narrowing unknown rank.
WithRank(s, r) ==
    IF ~RankKnown(s) THEN [status |-> OK, out |-> UnknownShapeOfRank(r)]
    ELSE IF Rank(s) = r THEN [status |-> OK, out |-> s]
    ELSE [status |-> InvalidArgument("Shape must be rank")]

\* WithRankAtLeast(shape, rank, &out): lower-bound form.
WithRankAtLeast(s, r) ==
    IF ~RankKnown(s) \/ Rank(s) >= r THEN [status |-> OK, out |-> s]
    ELSE [status |-> InvalidArgument("Shape must be at least rank")]

RECURSIVE ProductFrom(_, _)
ProductFrom(ds, j) ==
    IF j > Len(ds) THEN 1 ELSE ds[j].value * ProductFrom(ds, j + 1)

\* NumElements(s): product of all dimensions, unknown if any is unknown.
NumElements(s) ==
    IF ~RankKnown(s) THEN UnknownDim
    ELSE IF \E j \in 1..Len(s.dims) : ~s.dims[j].known THEN UnknownDim
    ELSE MakeDim(ProductFrom(s.dims, 1))

\* Subtract(first, second, &out): propagates unknown; a dimension is never
\* negative, so a negative difference is a failure.
Subtract(first, second) ==
    IF ~first.known THEN [status |-> OK, out |-> UnknownDim]
    ELSE IF first.value < second
         THEN [status |-> InvalidArgument("Negative dimension size")]
    ELSE [status |-> OK, out |-> MakeDim(first.value - second)]

\* ------------------------------------------------------------ input spaces
DimsUpTo(m) == {UnknownDim} \cup {MakeDim(v) : v \in 0..m}

\* every shape of known rank up to MaxRank and known dimensions up to MaxDim
ValuesShapes ==
    {UnknownShape} \cup
    UNION {{MakeShape(ds) : ds \in [1..r -> DimsUpTo(MaxDim)]} : r \in 0..MaxRank}

\* split inputs: the shape of unknown rank, every vector, and one shape of
\* each other rank (the shape functions read the rank of a split and, of a
\* vector, its length; nothing else)
SplitShapes ==
    {UnknownShape} \cup {Vector(d) : d \in DimsUpTo(MaxDim)}
    \cup {UnknownShapeOfRank(r) : r \in (0..MaxRank) \ {1}}

RaggedRanks == 0..MaxRaggedRank

OutputSlots == 0..(MaxRaggedRank + 1)

\* inputs of a ragged op: n split shapes followed by the values shape
RaggedInputs(n) ==
    {sp \o <<v>> : sp \in [1..n -> SplitShapes], v \in ValuesShapes}

NoOutputs == [o \in OutputSlots |-> << >>]

\* ------------------------------------------------------------------- state
VARIABLES op, attrs, inputs, outputs, pc, status,
          num_splits, batched, rt_dense_values, i,
          input_ragged_rank, output_ragged_rank

vars == <<op, attrs, inputs, outputs, pc, status,
          num_splits, batched, rt_dense_values, i,
          input_ragged_rank, output_ragged_rank>>

locals == <<num_splits, batched, rt_dense_values, i,
            input_ragged_rank, output_ragged_rank>>

ctx == <<op, attrs, inputs>>

\* c->input(idx), 0-based
input(idx) == inputs[idx + 1]

\* c->set_output(idx, shape)
set_output(outs, idx, s) == [outs EXCEPT ![idx] = Append(@, s)]

Init ==
    /\ op = "none"
    /\ attrs = << >>
    /\ inputs = << >>
    /\ outputs = NoOutputs
    /\ pc = "idle"
    /\ status = OK
    /\ num_splits = 0
    /\ batched = FALSE
    /\ rt_dense_values = UnknownShape
    /\ i = 0
    /\ input_ragged_rank = 0
    /\ output_ragged_rank = 0

\* TF_RETURN_IF_ERROR: leave the function with the failed status
Fail(st) ==
    /\ status' = st
    /\ pc' = "done"

\* ------------------------------------------------ RaggedTensorToSparse
CallToSparse ==
    /\ pc = "idle"
    /\ \E n \in RaggedRanks :
         /\ \E a \in {Attr(n), NoAttr} : attrs' = [RAGGED_RANK |-> a]
         /\ \E ins \in RaggedInputs(n) : inputs' = ins
    /\ op' = "RaggedTensorToSparse"
    /\ pc' = "sparse_getattr"
    /\ UNCHANGED <<outputs, status, locals>>

SparseGetAttr ==
    /\ pc = "sparse_getattr"
    /\ LET r == GetAttr(attrs, "RAGGED_RANK") IN
         IF r.status # OK
         THEN Fail(r.status) /\ UNCHANGED num_splits
         ELSE /\ num_splits' = r.value
              /\ pc' = "sparse_check_ragged_rank"
              /\ UNCHANGED status
    /\ UNCHANGED <<ctx, outputs, batched, rt_dense_values, i,
                   input_ragged_rank, output_ragged_rank>>

\* variant: the RAGGED_RANK test lets rank 0 through
SparseCheckRaggedRank_AllowZero ==
    /\ pc = "sparse_check_ragged_rank"
    /\ IF num_splits < 0
       THEN Fail(InvalidArgument("Requires RAGGED_RANK>0"))
       ELSE pc' = "sparse_values_rank" /\ UNCHANGED status
    /\ UNCHANGED <<ctx, outputs, locals>>

SparseCheckRaggedRank ==
    /\ pc = "sparse_check_ragged_rank"
    /\ IF num_splits < 1
       THEN Fail(InvalidArgument("Requires RAGGED_RANK>0"))
       ELSE pc' = "sparse_values_rank" /\ UNCHANGED status
    /\ UNCHANGED <<ctx, outputs, locals>>

SparseValuesRank ==
    /\ pc = "sparse_values_rank"
    /\ LET r == WithRankAtLeast(input(num_splits), 1) IN
         IF r.status # OK
         THEN Fail(r.status) /\ UNCHANGED <<rt_dense_values, i>>
         ELSE /\ rt_dense_values' = r.out
              /\ i' = 0
              /\ pc' = "sparse_splits_loop"
              /\ UNCHANGED status
    /\ UNCHANGED <<ctx, outputs, num_splits, batched,
                   input_ragged_rank, output_ragged_rank>>

SparseSplitsLoop ==
    /\ pc = "sparse_splits_loop"
    /\ IF i < num_splits
       THEN LET r == WithRank(input(i), 1) IN
              IF r.status # OK
              THEN Fail(r.status) /\ UNCHANGED i
              ELSE i' = i + 1 /\ UNCHANGED <<pc, status>>
       ELSE pc' = "sparse_emit" /\ UNCHANGED <<status, i>>
    /\ UNCHANGED <<ctx, outputs, num_splits, batched, rt_dense_values,
                   input_ragged_rank, output_ragged_rank>>

\* variant: dense_dims leaves out the ragged dimensions
SparseEmit_DenseRankOnly ==
    /\ pc = "sparse_emit"
    /\ LET dense_dims == IF RankKnown(rt_dense_values)
                         THEN MakeDim(Rank(rt_dense_values))
                         ELSE UnknownDim
           num_values == NumElements(rt_dense_values)
           o0 == set_output(outputs, 0, Matrix(num_values, dense_dims))
           o1 == set_output(o0, 1, Vector(num_values))
           o2 == set_output(o1, 2, Vector(dense_dims))
       IN outputs' = o2
    /\ status' = OK
    /\ pc' = "done"
    /\ UNCHANGED <<ctx, locals>>

\* variant: the third set_output writes index 1 again
SparseEmit_IndexSlip ==
    /\ pc = "sparse_emit"
    /\ LET dense_dims == IF RankKnown(rt_dense_values)
                         THEN MakeDim(Rank(rt_dense_values) + num_splits)
                         ELSE UnknownDim
           num_values == NumElements(rt_dense_values)
           o0 == set_output(outputs, 0, Matrix(num_values, dense_dims))
           o1 == set_output(o0, 1, Vector(num_values))
           o2 == set_output(o1, 1, Vector(dense_dims))
       IN outputs' = o2
    /\ status' = OK
    /\ pc' = "done"
    /\ UNCHANGED <<ctx, locals>>

SparseEmit ==
    /\ pc = "sparse_emit"
    /\ LET dense_dims == IF RankKnown(rt_dense_values)
                         THEN MakeDim(Rank(rt_dense_values) + num_splits)
                         ELSE UnknownDim
           num_values == NumElements(rt_dense_values)
           o0 == set_output(outputs, 0, Matrix(num_values, dense_dims))
           o1 == set_output(o0, 1, Vector(num_values))
           o2 == set_output(o1, 2, Vector(dense_dims))
       IN outputs' = o2
    /\ status' = OK
    /\ pc' = "done"
    /\ UNCHANGED <<ctx, locals>>

RaggedTensorToSparseShapeFn ==
    \/ SparseGetAttr
    \/ SparseCheckRaggedRank
    \/ SparseValuesRank
    \/ SparseSplitsLoop
    \/ SparseEmit

\* ------------------------------------------------ RaggedTensorToVariant
CallToVariant ==
    /\ pc = "idle"
    /\ \E n \in RaggedRanks :
         /\ \E a \in {Attr(n), NoAttr}, b \in {Attr(TRUE), Attr(FALSE), NoAttr} :
              attrs' = [RAGGED_RANK |-> a, batched_input |-> b]
         /\ \E ins \in RaggedInputs(n) : inputs' = ins
    /\ op' = "RaggedTensorToVariant"
    /\ pc' = "variant_getattr_ragged_rank"
    /\ UNCHANGED <<outputs, status, locals>>

VariantGetAttrRaggedRank ==
    /\ pc = "variant_getattr_ragged_rank"
    /\ LET r == GetAttr(attrs, "RAGGED_RANK") IN
         IF r.status # OK
         THEN Fail(r.status) /\ UNCHANGED num_splits
         ELSE /\ num_splits' = r.value
              /\ pc' = "variant_getattr_batched"
              /\ UNCHANGED status
    /\ UNCHANGED <<ctx, outputs, batched, rt_dense_values, i,
                   input_ragged_rank, output_ragged_rank>>

VariantGetAttrBatched ==
    /\ pc = "variant_getattr_batched"
    /\ LET r == GetAttr(attrs, "batched_input") IN
         IF r.status # OK
         THEN Fail(r.status) /\ UNCHANGED batched
         ELSE /\ batched' = r.value
              /\ pc' = "variant_values_rank"
              /\ UNCHANGED status
    /\ UNCHANGED <<ctx, outputs, num_splits, rt_dense_values, i,
                   input_ragged_rank, output_ragged_rank>>

VariantValuesRank ==
    /\ pc = "variant_values_rank"
    /\ LET r == WithRankAtLeast(input(num_splits), 1) IN
         IF r.status # OK
         THEN Fail(r.status) /\ UNCHANGED <<rt_dense_values, i>>
         ELSE /\ rt_dense_values' = r.out
              /\ i' = 0
              /\ pc' = "variant_splits_loop"
              /\ UNCHANGED status
    /\ UNCHANGED <<ctx, outputs, num_splits, batched,
                   input_ragged_rank, output_ragged_rank>>

\* variant: the loop stops one split early
VariantSplitsLoop_SkipLast ==
    /\ pc = "variant_splits_loop"
    /\ IF i < num_splits - 1
       THEN LET r == WithRank(input(i), 1) IN
              IF r.status # OK
              THEN Fail(r.status) /\ UNCHANGED i
              ELSE i' = i + 1 /\ UNCHANGED <<pc, status>>
       ELSE pc' = "variant_emit" /\ UNCHANGED <<status, i>>
    /\ UNCHANGED <<ctx, outputs, num_splits, batched, rt_dense_values,
                   input_ragged_rank, output_ragged_rank>>

VariantSplitsLoop ==
    /\ pc = "variant_splits_loop"
    /\ IF i < num_splits
       THEN LET r == WithRank(input(i), 1) IN
              IF r.status # OK
              THEN Fail(r.status) /\ UNCHANGED i
              ELSE i' = i + 1 /\ UNCHANGED <<pc, status>>
       ELSE pc' = "variant_emit" /\ UNCHANGED <<status, i>>
    /\ UNCHANGED <<ctx, outputs, num_splits, batched, rt_dense_values,
                   input_ragged_rank, output_ragged_rank>>

\* variant: the row count is the splits length itself
VariantEmitBatched_NoSubtract ==
    /\ pc = "variant_emit"
    /\ batched
    /\ LET num_first_splits == Dim(input(0), 0)
           r == Subtract(num_first_splits, 0)
       IN IF r.status # OK
          THEN Fail(r.status) /\ UNCHANGED outputs
          ELSE /\ outputs' = set_output(outputs, 0, Vector(r.out))
               /\ status' = OK
               /\ pc' = "done"
    /\ UNCHANGED <<ctx, locals>>

\* variant: the output is set before the subtraction is checked
VariantEmitBatched_SetFirst ==
    /\ pc = "variant_emit"
    /\ batched
    /\ LET num_first_splits == Dim(input(0), 0)
           r == Subtract(num_first_splits, 1)
       IN IF r.status # OK
          THEN /\ Fail(r.status)
               /\ outputs' = set_output(outputs, 0, Vector(num_first_splits))
          ELSE /\ outputs' = set_output(outputs, 0, Vector(r.out))
               /\ status' = OK
               /\ pc' = "done"
    /\ UNCHANGED <<ctx, locals>>

VariantEmitBatched ==
    /\ pc = "variant_emit"
    /\ batched
    /\ LET num_first_splits == Dim(input(0), 0)
           r == Subtract(num_first_splits, 1)
       IN IF r.status # OK
          THEN Fail(r.status) /\ UNCHANGED outputs
          ELSE /\ outputs' = set_output(outputs, 0, Vector(r.out))
               /\ status' = OK
               /\ pc' = "done"
    /\ UNCHANGED <<ctx, locals>>

\* variant: the unbatched branch emits a vector
VariantEmitScalar_Vector ==
    /\ pc = "variant_emit"
    /\ ~batched
    /\ outputs' = set_output(outputs, 0, Vector(UnknownDim))
    /\ status' = OK
    /\ pc' = "done"
    /\ UNCHANGED <<ctx, locals>>

VariantEmitScalar ==
    /\ pc = "variant_emit"
    /\ ~batched
    /\ outputs' = set_output(outputs, 0, Scalar)
    /\ status' = OK
    /\ pc' = "done"
    /\ UNCHANGED <<ctx, locals>>

RaggedTensorToVariantShapeFn ==
    \/ VariantGetAttrRaggedRank
    \/ VariantGetAttrBatched
    \/ VariantValuesRank
    \/ VariantSplitsLoop
    \/ VariantEmitBatched
    \/ VariantEmitScalar

\* ---------------------------------------------- RaggedTensorFromVariant
CallFromVariant ==
    /\ pc = "idle"
    /\ \E a \in {Attr(n) : n \in RaggedRanks} \cup {NoAttr},
          b \in {Attr(n) : n \in RaggedRanks} \cup {NoAttr} :
         attrs' = [input_ragged_rank |-> a, output_ragged_rank |-> b]
    /\ \E e \in ValuesShapes : inputs' = <<e>>
    /\ op' = "RaggedTensorFromVariant"
    /\ pc' = "from_getattr_input"
    /\ UNCHANGED <<outputs, status, locals>>

FromGetAttrInput ==
    /\ pc = "from_getattr_input"
    /\ LET r == GetAttr(attrs, "input_ragged_rank") IN
         IF r.status # OK
         THEN Fail(r.status) /\ UNCHANGED input_ragged_rank
         ELSE /\ input_ragged_rank' = r.value
              /\ pc' = "from_getattr_output"
              /\ UNCHANGED status
    /\ UNCHANGED <<ctx, outputs, num_splits, batched, rt_dense_values, i,
                   output_ragged_rank>>

FromGetAttrOutput ==
    /\ pc = "from_getattr_output"
    /\ LET r == GetAttr(attrs, "output_ragged_rank") IN
         IF r.status # OK
         THEN Fail(r.status) /\ UNCHANGED output_ragged_rank
         ELSE /\ output_ragged_rank' = r.value
              /\ pc' = "from_check_rank"
              /\ UNCHANGED status
    /\ UNCHANGED <<ctx, outputs, num_splits, batched, rt_dense_values, i,
                   input_ragged_rank>>

\* variant: the expected rank is output_ragged_rank alone
FromCheckRank_NoDifference ==
    /\ pc = "from_check_rank"
    /\ LET encoded_ragged == input(0) IN
         IF /\ RankKnown(encoded_ragged)
            /\ WithRank(encoded_ragged, output_ragged_rank).status # OK
         THEN Fail(WithRank(encoded_ragged, output_ragged_rank).status)
              /\ UNCHANGED i
         ELSE /\ i' = 0
              /\ pc' = "from_splits_loop"
              /\ UNCHANGED status
    /\ UNCHANGED <<ctx, outputs, num_splits, batched, rt_dense_values,
                   input_ragged_rank, output_ragged_rank>>

\* variant: the difference is taken the other way round
FromCheckRank_Swapped ==
    /\ pc = "from_check_rank"
    /\ LET encoded_ragged == input(0) IN
         IF /\ RankKnown(encoded_ragged)
            /\ WithRank(encoded_ragged,
                        input_ragged_rank - output_ragged_rank).status # OK
         THEN Fail(WithRank(encoded_ragged,
                            input_ragged_rank - output_ragged_rank).status)
              /\ UNCHANGED i
         ELSE /\ i' = 0
              /\ pc' = "from_splits_loop"
              /\ UNCHANGED status
    /\ UNCHANGED <<ctx, outputs, num_splits, batched, rt_dense_values,
                   input_ragged_rank, output_ragged_rank>>

FromCheckRank ==
    /\ pc = "from_check_rank"
    /\ LET encoded_ragged == input(0) IN
         IF /\ RankKnown(encoded_ragged)
            /\ WithRank(encoded_ragged,
                        output_ragged_rank - input_ragged_rank).status # OK
         THEN Fail(WithRank(encoded_ragged,
                            output_ragged_rank - input_ragged_rank).status)
              /\ UNCHANGED i
         ELSE /\ i' = 0
              /\ pc' = "from_splits_loop"
              /\ UNCHANGED status
    /\ UNCHANGED <<ctx, outputs, num_splits, batched, rt_dense_values,
                   input_ragged_rank, output_ragged_rank>>

\* variant: the split outputs get the shape of unknown rank
FromSplitsLoop_UnknownShape ==
    /\ pc = "from_splits_loop"
    /\ IF i < output_ragged_rank
       THEN /\ outputs' = set_output(outputs, i, UnknownShape)
            /\ i' = i + 1
            /\ UNCHANGED pc
       ELSE /\ pc' = "from_emit_values"
            /\ UNCHANGED <<outputs, i>>
    /\ UNCHANGED <<ctx, status, num_splits, batched, rt_dense_values,
                   input_ragged_rank, output_ragged_rank>>

FromSplitsLoop ==
    /\ pc = "from_splits_loop"
    /\ IF i < output_ragged_rank
       THEN /\ outputs' = set_output(outputs, i, UnknownShapeOfRank(1))
            /\ i' = i + 1
            /\ UNCHANGED pc
       ELSE /\ pc' = "from_emit_values"
            /\ UNCHANGED <<outputs, i>>
    /\ UNCHANGED <<ctx, status, num_splits, batched, rt_dense_values,
                   input_ragged_rank, output_ragged_rank>>

FromEmitValues ==
    /\ pc = "from_emit_values"
    /\ outputs' = set_output(outputs, output_ragged_rank, UnknownShape)
    /\ status' = OK
    /\ pc' = "done"
    /\ UNCHANGED <<ctx, locals>>

RaggedTensorFromVariantShapeFn ==
    \/ FromGetAttrInput
    \/ FromGetAttrOutput
    \/ FromCheckRank
    \/ FromSplitsLoop
    \/ FromEmitValues

Next ==
    \/ CallToSparse
    \/ RaggedTensorToSparseShapeFn
    \/ CallToVariant
    \/ RaggedTensorToVariantShapeFn
    \/ CallFromVariant
    \/ RaggedTensorFromVariantShapeFn

Spec == Init /\ [][Next]_vars

\* ================================================================== claims

\* C1: ToSparse with RAGGED_RANK = k >= 1, a values input of known rank
\* v >= 1 and splits of rank 1 or unknown rank succeeds with indices [N, v+k],
\* values [N] and dense_shape [v+k]; N is the product of the values
\* dimensions when all are known and unknown otherwise.
C1_ToSparseShapes ==
    (/\ pc = "done"
     /\ op = "RaggedTensorToSparse"
     /\ ~attrs.RAGGED_RANK.absent
     /\ attrs.RAGGED_RANK.value >= 1
     /\ inputs[Len(inputs)].rankKnown
     /\ Len(inputs[Len(inputs)].dims) >= 1
     /\ \A j \in 1..(Len(inputs) - 1) :
          ~inputs[j].rankKnown \/ Len(inputs[j].dims) = 1)
    => LET k == attrs.RAGGED_RANK.value
           ds == inputs[Len(inputs)].dims
           v == Len(ds)
           prod[j \in 0..v] == IF j = 0 THEN 1 ELSE prod[j - 1] * ds[j].value
           N == IF \A j \in 1..v : ds[j].known
                THEN [known |-> TRUE, value |-> prod[v]]
                ELSE [known |-> FALSE]
           D == [known |-> TRUE, value |-> v + k]
       IN /\ status = OK
          /\ outputs[0] = << [rankKnown |-> TRUE, dims |-> <<N, D>>] >>
          /\ outputs[1] = << [rankKnown |-> TRUE, dims |-> <<N>>] >>
          /\ outputs[2] = << [rankKnown |-> TRUE, dims |-> <<D>>] >>

C1_Witness ==
    /\ pc = "done"
    /\ op = "RaggedTensorToSparse"
    /\ attrs.RAGGED_RANK = Attr(2)
    /\ inputs = <<UnknownShape, Vector(MakeDim(1)),
                  Matrix(MakeDim(2), MakeDim(2))>>
    /\ outputs[0] = <<Matrix(MakeDim(4), MakeDim(4))>>
    /\ outputs[1] = <<Vector(MakeDim(4))>>
    /\ outputs[2] = <<Vector(MakeDim(4))>>

\* C2 as stated: ToVariant with batched_input = true, RAGGED_RANK >= 1 and
\* valid ranks succeeds for every known first-split length L >= 0 with
\* output [L-1].
C2_Original ==
    (/\ pc = "done"
     /\ op = "RaggedTensorToVariant"
     /\ attrs.batched_input = Attr(TRUE)
     /\ ~attrs.RAGGED_RANK.absent
     /\ attrs.RAGGED_RANK.value >= 1
     /\ ~inputs[Len(inputs)].rankKnown \/ Len(inputs[Len(inputs)].dims) >= 1
     /\ \A j \in 1..(Len(inputs) - 1) :
          ~inputs[j].rankKnown \/ Len(inputs[j].dims) = 1
     /\ inputs[1].rankKnown
     /\ inputs[1].dims[1].known)
    => /\ status = OK
       /\ outputs[0] = <<Vector(MakeDim(inputs[1].dims[1].value - 1))>>

\* C2 (amended): ToVariant with batched_input = true, RAGGED_RANK >= 1 and
\* valid ranks: a known first-split length L >= 1 gives output [L-1], the
\* length L = 0 fails, and an unknown first-split length (unknown dimension
\* or unknown rank) gives a rank-1 output of unknown length.
C2_BatchedRows ==
    (/\ pc = "done"
     /\ op = "RaggedTensorToVariant"
     /\ attrs.batched_input = Attr(TRUE)
     /\ ~attrs.RAGGED_RANK.absent
     /\ attrs.RAGGED_RANK.value >= 1
     /\ ~inputs[Len(inputs)].rankKnown \/ Len(inputs[Len(inputs)].dims) >= 1
     /\ \A j \in 1..(Len(inputs) - 1) :
          ~inputs[j].rankKnown \/ Len(inputs[j].dims) = 1)
    => IF inputs[1].rankKnown /\ inputs[1].dims[1].known
       THEN IF inputs[1].dims[1].value >= 1
            THEN /\ status = OK
                 /\ outputs[0] = << [rankKnown |-> TRUE, dims |->
                        << [known |-> TRUE,
                            value |-> inputs[1].dims[1].value - 1] >>] >>
            ELSE status # OK
       ELSE /\ status = OK
            /\ outputs[0] = << [rankKnown |-> TRUE,
                                dims |-> << [known |-> FALSE] >>] >>

C2_Witness ==
    /\ pc = "done"
    /\ op = "RaggedTensorToVariant"
    /\ attrs.batched_input = Attr(TRUE)
    /\ attrs.RAGGED_RANK = Attr(1)
    /\ inputs[1] = Vector(MakeDim(1))
    /\ status = OK
    /\ outputs[0] = <<Vector(MakeDim(0))>>

\* C3 as stated: ToVariant with batched_input = false yields the scalar
\* output for every combination of input shapes and every RAGGED_RANK.
C3_Original ==
    (/\ pc = "done"
     /\ op = "RaggedTensorToVariant"
     /\ attrs.batched_input = Attr(FALSE)
     /\ ~attrs.RAGGED_RANK.absent)
    => /\ status = OK
       /\ outputs[0] = <<Scalar>>

\* C3 (amended): ToVariant with batched_input = false yields the scalar
\* output, whatever the dimensions, for every RAGGED_RANK and all inputs
\* that pass the rank validation (values of unknown rank or rank >= 1, every
\* split of unknown rank or rank 1); inputs that do not pass it make the
\* call fail.
C3_UnbatchedScalar ==
    (/\ pc = "done"
     /\ op = "RaggedTensorToVariant"
     /\ attrs.batched_input = Attr(FALSE)
     /\ ~attrs.RAGGED_RANK.absent)
    => IF /\ ~inputs[Len(inputs)].rankKnown
             \/ Len(inputs[Len(inputs)].dims) >= 1
          /\ \A j \in 1..(Len(inputs) - 1) :
               ~inputs[j].rankKnown \/ Len(inputs[j].dims) = 1
       THEN /\ status = OK
            /\ outputs[0] = << [rankKnown |-> TRUE, dims |-> << >>] >>
       ELSE status # OK

C3_Witness ==
    /\ pc = "done"
    /\ op = "RaggedTensorToVariant"
    /\ attrs.batched_input = Attr(FALSE)
    /\ attrs.RAGGED_RANK = Attr(2)
    /\ inputs = <<Vector(MakeDim(0)), UnknownShape, Vector(UnknownDim)>>
    /\ status = OK
    /\ outputs[0] = <<Scalar>>

\* C4: FromVariant with both attributes readable succeeds if and only if
\* the input rank is unknown or equals output_ragged_rank - input_ragged_rank.
C4_FromVariantRankCheck ==
    (/\ pc = "done"
     /\ op = "RaggedTensorFromVariant"
     /\ ~attrs.input_ragged_rank.absent
     /\ ~attrs.output_ragged_rank.absent)
    => (status = OK <=>
          \/ ~inputs[1].rankKnown
          \/ Len(inputs[1].dims) = attrs.output_ragged_rank.value
                                     - attrs.input_ragged_rank.value)

C4_Witness ==
    /\ pc = "done"
    /\ op = "RaggedTensorFromVariant"
    /\ attrs.input_ragged_rank = Attr(1)
    /\ attrs.output_ragged_rank = Attr(2)
    /\ inputs[1].rankKnown
    /\ Len(inputs[1].dims) = 2
    /\ status # OK

\* C5 as stated: FromVariant with output_ragged_rank < input_ragged_rank
\* fails for every input shape.
C5_Original ==
    (/\ pc = "done"
     /\ op = "RaggedTensorFromVariant"
     /\ ~attrs.input_ragged_rank.absent
     /\ ~attrs.output_ragged_rank.absent
     /\ attrs.output_ragged_rank.value < attrs.input_ragged_rank.value)
    => status # OK

\* C5 (amended): FromVariant with output_ragged_rank < input_ragged_rank
\* fails for every input shape of known rank; an input of unknown rank is
\* not validated and the call succeeds.
C5_NegativeDifference ==
    (/\ pc = "done"
     /\ op = "RaggedTensorFromVariant"
     /\ ~attrs.input_ragged_rank.absent
     /\ ~attrs.output_ragged_rank.absent
     /\ attrs.output_ragged_rank.value < attrs.input_ragged_rank.value)
    => (status # OK <=> inputs[1].rankKnown)

C5_Witness ==
    /\ pc = "done"
    /\ op = "RaggedTensorFromVariant"
    /\ attrs.input_ragged_rank = Attr(2)
    /\ attrs.output_ragged_rank = Attr(1)
    /\ inputs[1] = Vector(MakeDim(1))
    /\ status # OK

\* C6: a successful FromVariant call with output_ragged_rank = r leaves
\* outputs 0..r-1 as rank-1 shapes of unknown length, output r as the shape
\* of unknown rank and every other output slot unset.
C6_FromVariantOutputs ==
    (/\ pc = "done"
     /\ op = "RaggedTensorFromVariant"
     /\ status = OK)
    => \A o \in DOMAIN outputs :
         outputs[o] =
           IF o < attrs.output_ragged_rank.value
           THEN << [rankKnown |-> TRUE, dims |-> << [known |-> FALSE] >>] >>
           ELSE IF o = attrs.output_ragged_rank.value
           THEN << [rankKnown |-> FALSE] >>
           ELSE << >>

C6_Witness ==
    /\ pc = "done"
    /\ op = "RaggedTensorFromVariant"
    /\ status = OK
    /\ attrs.output_ragged_rank = Attr(2)
    /\ attrs.input_ragged_rank = Attr(1)
    /\ inputs[1] = Vector(MakeDim(2))
    /\ outputs[1] = <<UnknownShapeOfRank(1)>>
    /\ outputs[2] = <<UnknownShape>>

\* C7: ToSparse with RAGGED_RANK < 1 fails with the InvalidArgument error
\* of the RAGGED_RANK test for every combination of input shapes, also for
\* a values input that the later rank checks would reject.
C7_RaggedRankZeroRejected ==
    (/\ pc = "done"
     /\ op = "RaggedTensorToSparse"
     /\ ~attrs.RAGGED_RANK.absent
     /\ attrs.RAGGED_RANK.value < 1)
    => status = [code |-> "INVALID_ARGUMENT", msg |-> "Requires RAGGED_RANK>0"]

C7_Witness ==
    /\ pc = "done"
    /\ op = "RaggedTensorToSparse"
    /\ attrs.RAGGED_RANK = Attr(0)
    /\ inputs = <<Scalar>>
    /\ status.code = "INVALID_ARGUMENT"

\* C8: ToSparse and ToVariant (either batched_input) with RAGGED_RANK >= 1
\* fail when a split input at any position has a known rank other than 1;
\* splits of rank 1 or unknown rank do not make the call fail: with a valid
\* values input (and, when batched, a first split that is not empty) the
\* call succeeds.
C8_SplitRankChecked ==
    (/\ pc = "done"
     /\ op \in {"RaggedTensorToSparse", "RaggedTensorToVariant"}
     /\ \A a \in DOMAIN attrs : ~attrs[a].absent
     /\ attrs.RAGGED_RANK.value >= 1)
    => /\ (\E j \in 1..(Len(inputs) - 1) :
              inputs[j].rankKnown /\ Len(inputs[j].dims) # 1)
          => status # OK
       /\ (/\ \A j \in 1..(Len(inputs) - 1) :
                ~inputs[j].rankKnown \/ Len(inputs[j].dims) = 1
           /\ ~inputs[Len(inputs)].rankKnown
              \/ Len(inputs[Len(inputs)].dims) >= 1
           /\ (op = "RaggedTensorToVariant" /\ attrs.batched_input.value)
              => inputs[1] # Vector(MakeDim(0)))
          => status = OK

C8_Witness ==
    /\ pc = "done"
    /\ op = "RaggedTensorToVariant"
    /\ attrs.RAGGED_RANK = Attr(2)
    /\ ~attrs.batched_input.absent
    /\ inputs[1] = Vector(MakeDim(1))
    /\ inputs[2] = Matrix(UnknownDim, UnknownDim)
    /\ inputs[3] = Vector(UnknownDim)
    /\ status # OK

\* C9: a call of any of the three shape functions that returns a failure
\* has performed no set_output: every output slot is as at call entry.
C9_NoOutputOnFailure ==
    (pc = "done" /\ status # OK)
    => \A o \in DOMAIN outputs : outputs[o] = << >>

C9_Witness ==
    /\ pc = "done"
    /\ op = "RaggedTensorToVariant"
    /\ attrs.batched_input = Attr(TRUE)
    /\ attrs.RAGGED_RANK = Attr(1)
    /\ inputs[1] = Vector(MakeDim(0))
    /\ status = InvalidArgument("Negative dimension size")
    /\ outputs = NoOutputs

\* C10: a successful call has called set_output exactly once for each
\* declared output index and for no other: 0, 1, 2 for ToSparse, 0 for
\* ToVariant, 0..output_ragged_rank for FromVariant.
C10_EachOutputSetOnce ==
    (pc = "done" /\ status = OK)
    => LET last == IF op = "RaggedTensorToSparse" THEN 2
                   ELSE IF op = "RaggedTensorToVariant" THEN 0
                   ELSE attrs.output_ragged_rank.value
       IN \A o \in DOMAIN outputs :
            Len(outputs[o]) = IF o <= last THEN 1 ELSE 0

C10_Witness ==
    /\ pc = "done"
    /\ status = OK
    /\ op = "RaggedTensorToVariant"
    /\ attrs.RAGGED_RANK = Attr(2)
    /\ attrs.batched_input = Attr(TRUE)
    /\ Len(outputs[0]) = 1
    /\ Len(outputs[1]) = 0
====
